---- MODULE Spec2Model ----
(***************************************************************************)
(* State machine of the single-track editor controller (src/App.tsx, the   *)
(* component that starts at line 397): asset store, timeline, selection,   *)
(* undo/redo history, busy flags, and the asynchronous handlers, each      *)
(* split at its await points.  A handler that is suspended at an await     *)
(* keeps the `state` of the render it was invoked in (its closure), while  *)
(* setState(prev => ...) is applied to the live state.                     *)
(***************************************************************************)
EXTENDS Integers, Sequences, FiniteSets, TLC

VARIABLES assets, timeline, activeClipId, past, future,
          isGenerating, isProcessingBg, isAnalyzing, hasApiKey,
          tasks, nextId, alert, lastOp, origin, steps, rt,
          app, poll, mstate, mtasks, mlast

vars == <<assets, timeline, activeClipId, past, future,
          isGenerating, isProcessingBg, isAnalyzing, hasApiKey,
          tasks, nextId, alert, lastOp, origin, steps, rt,
          app, poll, mstate, mtasks, mlast>>

(* ---- bounds of the model ---- *)
MaxIds == 4
MaxSteps == 3
MaxTasks == 2
MaxJobSteps == 4
MaxStitchSteps == 5

(* ---- values ---- *)
NoId == 0
NoAlert == "none"
DefaultSpeed == 10
SpeedInputs == {20}
TransitionInputs == {"crossfade"}
BgColors == {"transparent"}
FileLists == {<<"video">>, <<"image", "video">>}
DefaultOverlay == [text |-> "", color |-> "#ffffff", fontSize |-> 24, position |-> "bottom"]
OverlayPatches == {[text |-> "hi"], [position |-> "top"]}

Min(S) == CHOOSE x \in S : \A y \in S : x <= y

Front(s) == SubSeq(s, 1, Len(s) - 1)

Last(s) == s[Len(s)]

(* ---- HistoryItem and the live state it is taken from ---- *)
HistoryItem(a, t, c) == [assets |-> a, timeline |-> t, activeClipId |-> c]

Cur == HistoryItem(assets, timeline, activeClipId)

(* ---- Array.prototype.find on the asset store and on the timeline ---- *)
FindAsset(as, id) ==
  LET I == {i \in 1..Len(as) : as[i].id = id}
  IN IF I = {} THEN <<>> ELSE <<as[Min(I)]>>

FindClip(tl, id) ==
  LET I == {i \in 1..Len(tl) : tl[i].id = id}
  IN IF I = {} THEN <<>> ELSE <<tl[Min(I)]>>

(* findIndex, 0-based as in the source, -1 when absent *)
FindIndex(tl, id) ==
  LET I == {i \in 1..Len(tl) : tl[i].id = id}
  IN IF I = {} THEN -1 ELSE Min(I) - 1

ClipIds(tl) == {tl[i].id : i \in 1..Len(tl)}

AssetIds(as) == {as[i].id : i \in 1..Len(as)}

(* ---- the Timeline component renders clips.sort((a,b) => a.order - b.order): *)
(* a stable in-place sort of the array held in state                          *)
InsertByOrder(s, c) ==
  LET k == Cardinality({i \in 1..Len(s) : s[i].order <= c.order})
  IN SubSeq(s, 1, k) \o <<c>> \o SubSeq(s, k + 1, Len(s))

RECURSIVE SortByOrder(_)
SortByOrder(tl) ==
  IF tl = <<>> THEN <<>> ELSE InsertByOrder(SortByOrder(Front(tl)), Last(tl))

(* ---- clips and assets ---- *)
NewClip(id, assetId, order, status, transition) ==
  [id |-> id, assetId |-> assetId, order |-> order, status |-> status,
   transition |-> transition, playbackSpeed |-> DefaultSpeed,
   textOverlay |-> <<>>, scenes |-> "absent", background |-> "none"]

UploadedAsset(id, type) == [id |-> id, type |-> type, originalUri |-> FALSE]

GeneratedAsset(id) == [id |-> id, type |-> "video", originalUri |-> TRUE]

(* prev.timeline.map(c => c.id === id ? changed(c) : c); changed[i] is the changed tl[i] *)
MapClip(tl, id, changed) ==
  [i \in 1..Len(tl) |-> IF tl[i].id = id THEN changed[i] ELSE tl[i]]

FilterOut(tl, id) == SelectSeq(tl, LAMBDA c : c.id # id)

(* activeAsset, App.tsx 904-906 *)
activeAsset ==
  IF activeClipId = NoId THEN <<>>
  ELSE LET c == FindClip(timeline, activeClipId)
       IN IF c = <<>> THEN <<>> ELSE FindAsset(assets, c[1].assetId)

(* the asset the Timeline component shows for a clip, App.tsx 1475 *)
TileAsset(c) == FindAsset(assets, c.assetId)

(* ---- suspended handlers ---- *)
Task(kind, pc, snap, clip, arg) ==
  [kind |-> kind, pc |-> pc, snap |-> snap, clip |-> clip, arg |-> arg]

JobKinds == {"generate", "stitch", "extend", "removeBg"}

RtIdle == [phase |-> "free", pre |-> HistoryItem(<<>>, <<>>, NoId), n |-> 0]

(* the step taken last: its name, the clip and the handler it concerns *)
OpOf(name, clip, kind) ==
  [op |-> name, clip |-> clip, kind |-> kind, hadFuture |-> future # <<>>]

Op(name, clip) == OpOf(name, clip, "none")

(* ---- bookkeeping of the exploration: the budget of user actions and the ---- *)
(* ---- round-trip scenario (a marked state, then N checkpointed actions)   ---- *)
(* `app` names the program that runs: the single-track controller, the     *)
(* multi-track controller, or one call of GeminiService.pollOperation; the *)
(* state of the others is not used                                         *)
Elsewhere == <<app, poll, mstate, mtasks, mlast>>

Phase(ps) == app \in {"single", "jobs", "stitch"} /\ rt.phase \in ps

(* user actions of a run: MaxSteps, MaxJobSteps in the run of two jobs, *)
(* MaxStitchSteps in the run that ends in a stitch                      *)
StepBound ==
  CASE app = "jobs" -> MaxJobSteps
    [] app = "stitch" -> MaxStitchSteps
    [] OTHER -> MaxSteps

Tick == steps < StepBound /\ steps' = steps + 1

Count(pushed) ==
  /\ rt' = IF rt.phase = "act" THEN [rt EXCEPT !.n = @ + pushed] ELSE rt
  /\ UNCHANGED Elsewhere

(* a user action that calls saveHistory in the step *)
Checkpointed == Phase({"free", "act"}) /\ Tick /\ Count(1)

(* the invocation of a handler that calls saveHistory later, or never *)
Invoked == Phase({"free", "act"}) /\ Tick /\ Count(0)

(* the resumption of a suspended handler *)
Resumed(pushed) == Phase({"free", "act"}) /\ UNCHANGED steps /\ Count(pushed)

(* an action that is no part of a sequence of checkpointed actions *)
Other == Phase({"free"}) /\ Tick /\ UNCHANGED rt /\ UNCHANGED Elsewhere

(* ---- frame shared by the handlers ---- *)
Flags == <<isGenerating, isProcessingBg, isAnalyzing, hasApiKey>>

Handlers == {t \in tasks : t.kind # "checkKey"}

(* saveHistory, App.tsx 420-428: push the snapshot, clear the redo stack *)
(* variant: the snapshot is pushed and the future stack is kept *)
saveHistoryKeepsFuture(snap) == past' = Append(past, snap) /\ future' = future

saveHistory(snap) ==
  /\ past' = Append(past, snap)
  /\ future' = <<>>

Sync(name, clip) ==
  /\ UNCHANGED Flags
  /\ tasks' = tasks
  /\ alert' = NoAlert
  /\ lastOp' = Op(name, clip)

(* ---- undo / redo, App.tsx 430-470, as functions of {current, past, future} ---- *)
History(c, p, f) == [cur |-> c, past |-> p, future |-> f]

Rendered(item) == [item EXCEPT !.timeline = SortByOrder(item.timeline)]

(* variant: undo takes the oldest snapshot of the past stack *)
UndoneOldest(h) ==
  IF h.past = <<>> THEN h
  ELSE History(Rendered(Head(h.past)), Tail(h.past), <<h.cur>> \o h.future)

Undone(h) ==
  IF h.past = <<>> THEN h
  ELSE History(Rendered(Last(h.past)), Front(h.past), <<h.cur>> \o h.future)

(* variant: redo leaves the restored snapshot on the future stack *)
RedoneKeepsFuture(h) ==
  IF h.future = <<>> THEN h
  ELSE History(Rendered(Head(h.future)), Append(h.past, h.cur), h.future)

Redone(h) ==
  IF h.future = <<>> THEN h
  ELSE History(Rendered(Head(h.future)), Append(h.past, h.cur), Tail(h.future))

(* variant: undo and redo restore the asset store and leave the timeline as it is *)
RestoreAssetsOnly(h) ==
  /\ assets' = h.cur.assets
  /\ timeline' = timeline
  /\ activeClipId' = h.cur.activeClipId
  /\ past' = h.past
  /\ future' = h.future

Restore(h) ==
  /\ assets' = h.cur.assets
  /\ timeline' = h.cur.timeline
  /\ activeClipId' = h.cur.activeClipId
  /\ past' = h.past
  /\ future' = h.future

undo ==
  /\ Other
  /\ past # <<>>
  /\ Restore(Undone(History(Cur, past, future)))
  /\ Sync("undo", NoId)
  /\ UNCHANGED <<nextId, origin>>

undoEmpty ==
  /\ Other
  /\ past = <<>>
  /\ Sync("undoEmpty", NoId)
  /\ UNCHANGED <<assets, timeline, activeClipId, past, future, nextId, origin>>

redo ==
  /\ Other
  /\ future # <<>>
  /\ Restore(Redone(History(Cur, past, future)))
  /\ Sync("redo", NoId)
  /\ UNCHANGED <<nextId, origin>>

redoEmpty ==
  /\ Other
  /\ future = <<>>
  /\ Sync("redoEmpty", NoId)
  /\ UNCHANGED <<assets, timeline, activeClipId, past, future, nextId, origin>>

(* ---- Timeline callbacks, App.tsx 1362-1383 ---- *)
onDrop(assetId) ==
  /\ Checkpointed
  /\ nextId <= MaxIds
  /\ saveHistory(Cur)
  /\ timeline' = SortByOrder(Append(timeline,
                   NewClip(nextId, assetId, Len(timeline), "ready", "none")))
  /\ activeClipId' = nextId
  /\ nextId' = nextId + 1
  /\ Sync("drop", nextId)
  /\ UNCHANGED <<assets, origin>>

onRemoveClip(id) ==
  /\ Checkpointed
  /\ saveHistory(Cur)
  /\ timeline' = SortByOrder(FilterOut(timeline, id))
  /\ Sync("removeClip", id)
  /\ UNCHANGED <<assets, activeClipId, nextId, origin>>

onSelectClip(id) ==
  /\ Other
  /\ activeClipId' = id
  /\ Sync("select", id)
  /\ UNCHANGED <<assets, timeline, past, future, nextId, origin>>

onSetTransition(index, type) ==
  /\ Checkpointed
  /\ saveHistory(Cur)
  /\ timeline' = SortByOrder([i \in 1..Len(timeline) |->
                   IF i = index THEN [timeline[i] EXCEPT !.transition = type]
                   ELSE timeline[i]])
  /\ Sync("setTransition", timeline[index].id)
  /\ UNCHANGED <<assets, activeClipId, nextId, origin>>

(* ---- handlePlaybackSpeedChange / handleTextOverlayChange, App.tsx 868-890 ---- *)
SetSpeed(speed, c) == [c EXCEPT !.playbackSpeed = speed]

handlePlaybackSpeedChange(speed) ==
  /\ Checkpointed
  /\ activeClipId # NoId
  /\ saveHistory(Cur)
  /\ timeline' = SortByOrder(MapClip(timeline, activeClipId,
                   [i \in 1..Len(timeline) |-> SetSpeed(speed, timeline[i])]))
  /\ Sync("setSpeed", activeClipId)
  /\ UNCHANGED <<assets, activeClipId, nextId, origin>>

MergeOverlay(base, patch) ==
  [f \in DOMAIN base |-> IF f \in DOMAIN patch THEN patch[f] ELSE base[f]]

SetOverlay(patch, c) ==
  [c EXCEPT !.textOverlay =
     <<MergeOverlay(IF c.textOverlay = <<>> THEN DefaultOverlay ELSE c.textOverlay[1], patch)>>]

handleTextOverlayChange(patch) ==
  /\ Checkpointed
  /\ activeClipId # NoId
  /\ saveHistory(Cur)
  /\ timeline' = SortByOrder(MapClip(timeline, activeClipId,
                   [i \in 1..Len(timeline) |-> SetOverlay(patch, timeline[i])]))
  /\ Sync("setOverlay", activeClipId)
  /\ UNCHANGED <<assets, activeClipId, nextId, origin>>

(* ---- asynchronous handlers ---- *)
FlagOf(kind) == IF kind = "removeBg" THEN "isProcessingBg" ELSE "isGenerating"

(* setState(prev => ({...prev, <flag>: v})) for the flag of a job kind *)
SetFlag(kind, v) ==
  /\ isGenerating' = IF FlagOf(kind) = "isGenerating" THEN v ELSE isGenerating
  /\ isProcessingBg' = IF FlagOf(kind) = "isProcessingBg" THEN v ELSE isProcessingBg
  /\ UNCHANGED <<isAnalyzing, hasApiKey>>

(* the alert() of the catch block of each handler; handleStitch has none *)
CatchAlert(kind) ==
  CASE kind = "generate" -> "Error generating video"
    [] kind = "extend" -> "Extension failed"
    [] kind = "removeBg" -> "Error removing background"
    [] OTHER -> NoAlert

Spawn(t) ==
  /\ Cardinality(Handlers) < MaxTasks
  /\ tasks' = tasks \cup {t}

(* mount effect, App.tsx 497-503 *)
checkKey(t, result) ==
  /\ Resumed(0)
  /\ t.kind = "checkKey"
  /\ hasApiKey' = result
  /\ tasks' = tasks \ {t}
  /\ alert' = NoAlert
  /\ lastOp' = Op("checkKey", NoId)
  /\ UNCHANGED <<assets, timeline, activeClipId, past, future, nextId, origin,
                 isGenerating, isProcessingBg, isAnalyzing>>

(* handleUpload, App.tsx 532-566 *)
handleUpload(files) ==
  /\ Checkpointed
  /\ saveHistory(Cur)
  /\ Spawn(Task("upload", "decode", Cur, NoId, files))
  /\ alert' = NoAlert
  /\ lastOp' = Op("upload", NoId)
  /\ UNCHANGED <<assets, timeline, activeClipId, nextId, origin, Flags>>

(* variant: the store is replaced by the new assets *)
ReplaceAssets(as, new) == new

(* assets: [...prev.assets, ...newAssets] *)
AppendAssets(as, new) == as \o new

NewAssets(files, first) == [i \in 1..Len(files) |-> UploadedAsset(first + i - 1, files[i])]

uploadDone(t) ==
  /\ Resumed(0)
  /\ t.kind = "upload"
  /\ nextId + Len(t.arg) - 1 <= MaxIds
  /\ assets' = AppendAssets(assets, NewAssets(t.arg, nextId))
  /\ nextId' = nextId + Len(t.arg)
  /\ tasks' = tasks \ {t}
  /\ alert' = NoAlert
  /\ lastOp' = Op("uploadDone", NoId)
  /\ UNCHANGED <<timeline, activeClipId, past, future, origin, Flags>>

(* fileToBase64 rejects (reader.onerror): the handler ends without setState *)
uploadFail(t) ==
  /\ Resumed(0)
  /\ t.kind = "upload"
  /\ \E i \in 1..Len(t.arg) : t.arg[i] = "image"
  /\ tasks' = tasks \ {t}
  /\ alert' = NoAlert
  /\ lastOp' = Op("uploadFail", NoId)
  /\ UNCHANGED <<assets, timeline, activeClipId, past, future, nextId, origin, Flags>>

(* handleGenerate, App.tsx 743-753: up to setState(isGenerating: true) *)
handleGenerate ==
  /\ Invoked
  /\ ~isGenerating
  /\ IF hasApiKey
     THEN /\ Spawn(Task("generate", "submit", Cur, NoId, "none"))
          /\ SetFlag("generate", TRUE)
     ELSE /\ Spawn(Task("generate", "key", Cur, NoId, "none"))
          /\ UNCHANGED Flags
  /\ alert' = NoAlert
  /\ lastOp' = OpOf("invoke", NoId, "generate")
  /\ UNCHANGED <<assets, timeline, activeClipId, past, future, nextId, origin>>

(* handleGenerate, App.tsx 744-749: the key selector returned *)
generateKey(t, check) ==
  /\ Resumed(0)
  /\ t.kind = "generate" /\ t.pc = "key"
  /\ hasApiKey' = check
  /\ IF check
     THEN /\ tasks' = (tasks \ {t}) \cup {[t EXCEPT !.pc = "submit"]}
          /\ isGenerating' = TRUE
     ELSE /\ tasks' = tasks \ {t}
          /\ UNCHANGED isGenerating
  /\ alert' = NoAlert
  /\ lastOp' = Op("generateKey", NoId)
  /\ UNCHANGED <<assets, timeline, activeClipId, past, future, nextId, origin,
                 isProcessingBg, isAnalyzing>>

(* handleStitch, App.tsx 585-604: reference clips from the captured state *)
StitchRefs(snap) ==
  LET currentIndex == FindIndex(snap.timeline, snap.activeClipId)
      prevIndex == IF currentIndex > 0 THEN currentIndex - 1 ELSE 0
      targetIndex == IF currentIndex # -1 THEN currentIndex ELSE 1
  IN <<snap.timeline[prevIndex + 1], snap.timeline[targetIndex + 1]>>

StitchAssetsPresent(snap) ==
  /\ FindAsset(snap.assets, StitchRefs(snap)[1].assetId) # <<>>
  /\ FindAsset(snap.assets, StitchRefs(snap)[2].assetId) # <<>>

handleStitch ==
  /\ Invoked
  /\ ~isGenerating
  /\ Len(timeline) >= 2
  /\ StitchAssetsPresent(Cur)
  /\ Spawn(Task("stitch", "submit", Cur, NoId, "none"))
  /\ SetFlag("stitch", TRUE)
  /\ alert' = NoAlert
  /\ lastOp' = OpOf("invoke", NoId, "stitch")
  /\ UNCHANGED <<assets, timeline, activeClipId, past, future, nextId, origin>>

(* throw new Error("Missing assets for stitching") before the first await: *)
(* isGenerating is set and cleared in the same batch, console.error only   *)
handleStitchMissing ==
  /\ Other
  /\ ~isGenerating
  /\ Len(timeline) >= 2
  /\ ~StitchAssetsPresent(Cur)
  /\ Sync("stitchMissing", NoId)
  /\ UNCHANGED <<assets, timeline, activeClipId, past, future, nextId, origin>>

(* the guards of handleExtend (816-824) and handleRemoveBackground (647-654) *)
(* variant: any video asset is accepted, with or without originalUri *)
EditTargetAnyVideo(needReady) ==
  LET c == FindClip(timeline, activeClipId)
  IN IF c = <<>> \/ (needReady /\ c[1].status # "ready") THEN "return"
     ELSE LET a == FindAsset(assets, c[1].assetId)
          IN IF a = <<>> \/ a[1].type # "video" THEN "alert"
             ELSE "ok"

EditTarget(needReady) ==
  LET c == FindClip(timeline, activeClipId)
  IN IF c = <<>> \/ (needReady /\ c[1].status # "ready") THEN "return"
     ELSE LET a == FindAsset(assets, c[1].assetId)
          IN IF a = <<>> \/ a[1].type # "video" \/ ~a[1].originalUri THEN "alert"
             ELSE "ok"

handleExtend ==
  /\ Invoked
  /\ ~isGenerating
  /\ activeClipId # NoId
  /\ EditTarget(TRUE) = "ok"
  /\ Spawn(Task("extend", "submit", Cur, activeClipId, "none"))
  /\ SetFlag("extend", TRUE)
  /\ alert' = NoAlert
  /\ lastOp' = OpOf("invoke", activeClipId, "extend")
  /\ UNCHANGED <<assets, timeline, activeClipId, past, future, nextId, origin>>

handleExtendRejected ==
  /\ Other
  /\ ~isGenerating
  /\ activeClipId # NoId
  /\ EditTarget(TRUE) # "ok"
  /\ UNCHANGED Flags
  /\ tasks' = tasks
  /\ alert' = IF EditTarget(TRUE) = "alert"
              THEN "Only AI-generated videos with accessible remote links can be extended."
              ELSE NoAlert
  /\ lastOp' = Op("extendRejected", activeClipId)
  /\ UNCHANGED <<assets, timeline, activeClipId, past, future, nextId, origin>>

handleRemoveBackground(color) ==
  /\ Invoked
  /\ ~isProcessingBg /\ ~isGenerating
  /\ activeClipId # NoId
  /\ EditTarget(FALSE) = "ok"
  /\ Spawn(Task("removeBg", "submit", Cur, activeClipId, color))
  /\ SetFlag("removeBg", TRUE)
  /\ alert' = NoAlert
  /\ lastOp' = OpOf("invoke", activeClipId, "removeBg")
  /\ UNCHANGED <<assets, timeline, activeClipId, past, future, nextId, origin>>

handleRemoveBackgroundRejected ==
  /\ Other
  /\ ~isProcessingBg /\ ~isGenerating
  /\ activeClipId # NoId
  /\ EditTarget(FALSE) # "ok"
  /\ UNCHANGED Flags
  /\ tasks' = tasks
  /\ alert' = IF EditTarget(FALSE) = "alert"
              THEN "Please select an AI-generated video clip to remove background."
              ELSE NoAlert
  /\ lastOp' = Op("removeBgRejected", activeClipId)
  /\ UNCHANGED <<assets, timeline, activeClipId, past, future, nextId, origin>>

(* ---- the job started by generate, stitch, extend, remove background ---- *)
Advance(t, clip) == tasks' = (tasks \ {t}) \cup {[t EXCEPT !.pc = "poll", !.clip = clip]}

(* order of the placeholder: state.timeline.length in handleGenerate (774), *)
(* prev.timeline.length in handleStitch (619) and handleExtend (839)        *)
PlaceholderOrder(t) ==
  IF t.kind = "generate" THEN Len(t.snap.timeline) ELSE Len(timeline)

(* tempClip, App.tsx 770-777 (generate), 619 (stitch), 838-840 (extend) *)
(* variant: the placeholder refers to the first asset of the store *)
PlaceholderOfFirstAsset(id, order) ==
  NewClip(id, IF assets = <<>> THEN NoId ELSE assets[1].id, order, "generating", "unset")

PlaceholderClip(id, order) == NewClip(id, NoId, order, "generating", "unset")

(* variant: the clip whose background is replaced loses its asset reference *)
SetGeneratingClearsAsset(c) == [c EXCEPT !.status = "generating", !.assetId = NoId]

SetGenerating(c) == [c EXCEPT !.status = "generating"]

(* the submission resolved: saveHistory() of the closure, then the optimistic update *)
submitOk(t) ==
  /\ Resumed(1)
  /\ t.kind \in JobKinds /\ t.pc = "submit"
  /\ saveHistory(t.snap)
  /\ IF t.kind = "removeBg"
     THEN /\ timeline' = SortByOrder(MapClip(timeline, t.clip,
                            [i \in 1..Len(timeline) |-> SetGenerating(timeline[i])]))
          /\ Advance(t, t.clip)
          /\ UNCHANGED <<activeClipId, nextId, origin>>
     ELSE /\ nextId <= MaxIds
          /\ timeline' = SortByOrder(Append(timeline,
                           PlaceholderClip(nextId, PlaceholderOrder(t))))
          /\ activeClipId' = nextId
          /\ Advance(t, nextId)
          /\ nextId' = nextId + 1
          /\ origin' = origin \cup {[id |-> nextId, how |-> "placeholder"]}
  /\ alert' = NoAlert
  /\ lastOp' = OpOf("submitOk", IF t.kind = "removeBg" THEN t.clip ELSE nextId, t.kind)
  /\ UNCHANGED <<assets, Flags>>

(* catch block: the flag is cleared, the message is shown (not by handleStitch) *)
(* variant: the catch block shows the message and leaves the flag set *)
CatchKeepsFlag(t, name) ==
  /\ UNCHANGED Flags
  /\ tasks' = tasks \ {t}
  /\ alert' = CatchAlert(t.kind)
  /\ lastOp' = OpOf(name, t.clip, t.kind)
  /\ UNCHANGED <<assets, timeline, activeClipId, past, future, nextId, origin>>

Catch(t, name) ==
  /\ SetFlag(t.kind, FALSE)
  /\ tasks' = tasks \ {t}
  /\ alert' = CatchAlert(t.kind)
  /\ lastOp' = OpOf(name, t.clip, t.kind)
  /\ UNCHANGED <<assets, timeline, activeClipId, past, future, nextId, origin>>

submitFail(t) ==
  /\ Resumed(0)
  /\ t.kind \in JobKinds /\ t.pc = "submit"
  /\ Catch(t, "submitFail")

(* variant: the clip gets the asset but keeps its status *)
FinalizeKeepsStatus(t, assetId, c) ==
  IF t.kind = "removeBg"
  THEN [c EXCEPT !.assetId = assetId, !.background = t.arg]
  ELSE [c EXCEPT !.assetId = assetId]

Finalize(t, assetId, c) ==
  IF t.kind = "removeBg"
  THEN [c EXCEPT !.assetId = assetId, !.status = "ready", !.background = t.arg]
  ELSE [c EXCEPT !.assetId = assetId, !.status = "ready"]

(* the finalize step applied to the store and the timeline s: *)
(* setState(prev => ...), App.tsx 798-807 (generate), 630-639, 679-684, 853-862 *)
(* variant: the timeline is rebuilt from the snapshot of the closure *)
CompletedFromSnapshot(s, t, assetId) ==
  [assets |-> AppendAssets(s.assets, <<GeneratedAsset(assetId)>>),
   timeline |-> SortByOrder(MapClip(t.snap.timeline, t.clip,
                  [i \in 1..Len(t.snap.timeline) |-> Finalize(t, assetId, t.snap.timeline[i])]))]

(* variant: a placeholder that is gone is created again as a ready clip *)
CompletedRecreates(s, t, assetId) ==
  [assets |-> AppendAssets(s.assets, <<GeneratedAsset(assetId)>>),
   timeline |->
     IF t.clip \in ClipIds(s.timeline)
     THEN SortByOrder(MapClip(s.timeline, t.clip,
            [i \in 1..Len(s.timeline) |-> Finalize(t, assetId, s.timeline[i])]))
     ELSE SortByOrder(Append(s.timeline,
            NewClip(t.clip, assetId, Len(s.timeline), "ready", "unset")))]

Completed(s, t, assetId) ==
  [assets |-> AppendAssets(s.assets, <<GeneratedAsset(assetId)>>),
   timeline |-> SortByOrder(MapClip(s.timeline, t.clip,
                  [i \in 1..Len(s.timeline) |-> Finalize(t, assetId, s.timeline[i])]))]

(* prev of the functional update *)
Live == [assets |-> assets, timeline |-> timeline]

(* pollOperation resolved: the asset is appended and the clip is finalized *)
pollOk(t) ==
  /\ Resumed(0)
  /\ t.kind \in JobKinds /\ t.pc = "poll"
  /\ nextId <= MaxIds
  /\ assets' = Completed(Live, t, nextId).assets
  /\ timeline' = Completed(Live, t, nextId).timeline
  /\ nextId' = nextId + 1
  /\ origin' = IF t.clip \in ClipIds(timeline)
               THEN origin \cup {[id |-> t.clip, how |-> "finalized"]} ELSE origin
  /\ SetFlag(t.kind, FALSE)
  /\ tasks' = tasks \ {t}
  /\ alert' = NoAlert
  /\ lastOp' = OpOf("pollOk", t.clip, t.kind)
  /\ UNCHANGED <<activeClipId, past, future>>

pollFail(t) ==
  /\ Resumed(0)
  /\ t.kind \in JobKinds /\ t.pc = "poll"
  /\ Catch(t, "pollFail")

(* response.text of a structured suggestion *)
ResponseTexts == {"json", "not json", "missing"}

(* try { return JSON.parse(response.text || "[]") } catch { return [] } *)
ParseList(text) == IF text = "json" THEN "list" ELSE "empty"

(* ---- handleScanScenes, App.tsx 696-725 ---- *)
ScanTarget ==
  LET c == FindClip(timeline, activeClipId)
  IN IF c = <<>> THEN FALSE
     ELSE LET a == FindAsset(assets, c[1].assetId)
          IN a # <<>> /\ a[1].type = "video"

handleScanScenes ==
  /\ Invoked
  /\ ~isAnalyzing
  /\ activeClipId # NoId
  /\ ScanTarget
  /\ Spawn(Task("scan", "analyze", Cur, activeClipId, "none"))
  /\ isAnalyzing' = TRUE
  /\ alert' = NoAlert
  /\ lastOp' = OpOf("invoke", activeClipId, "scan")
  /\ UNCHANGED <<assets, timeline, activeClipId, past, future, nextId, origin,
                 isGenerating, isProcessingBg, hasApiKey>>

SetScenes(scenes, c) == [c EXCEPT !.scenes = scenes]

scanOk(t, scenes) ==
  /\ Resumed(1)
  /\ t.kind = "scan"
  /\ saveHistory(t.snap)
  /\ timeline' = SortByOrder(MapClip(timeline, t.clip,
                   [i \in 1..Len(timeline) |-> SetScenes(scenes, timeline[i])]))
  /\ isAnalyzing' = FALSE
  /\ tasks' = tasks \ {t}
  /\ alert' = NoAlert
  /\ lastOp' = Op("scanOk", t.clip)
  /\ UNCHANGED <<assets, activeClipId, nextId, origin, isGenerating, isProcessingBg, hasApiKey>>

scanFail(t) ==
  /\ Resumed(0)
  /\ t.kind = "scan"
  /\ isAnalyzing' = FALSE
  /\ tasks' = tasks \ {t}
  /\ alert' = NoAlert
  /\ lastOp' = Op("scanFail", t.clip)
  /\ UNCHANGED <<assets, timeline, activeClipId, past, future, nextId, origin,
                 isGenerating, isProcessingBg, hasApiKey>>

(* the single-track controller after its first render *)
InitSingle ==
  /\ assets = <<>>
  /\ timeline = <<>>
  /\ activeClipId = NoId
  /\ past = <<>>
  /\ future = <<>>
  /\ isGenerating = FALSE
  /\ isProcessingBg = FALSE
  /\ isAnalyzing = FALSE
  /\ hasApiKey = FALSE
  /\ tasks = {Task("checkKey", "await", HistoryItem(<<>>, <<>>, NoId), NoId, "none")}
  /\ nextId = 1
  /\ alert = NoAlert
  /\ lastOp = [op |-> "init", clip |-> NoId, kind |-> "none", hadFuture |-> FALSE]
  /\ origin = {}
  /\ steps = 0
  /\ rt = RtIdle

(* pollOperation has not been called *)
PollIdle ==
  [variant |-> "none", script |-> <<>>, pos |-> 0, pc |-> "idle", sleeps |-> 0,
   queries |-> 0, clock |-> 0, fetches |-> 0, result |-> <<>>]

(* the multi-track controller after its first render, App.tsx 9-24 *)
MultiState ==
  [assets |-> <<>>, clips |-> <<>>, activeClipId |-> NoId, activeTrackId |-> "v1",
   isGenerating |-> FALSE, isAnalyzing |-> FALSE, isAnalyzingStoryboard |-> FALSE,
   isBoosting |-> FALSE, storyboard |-> "null"]

(* with: the handlers in flight for the clip when the handler that ended was invoked *)
MultiOp(name, kind, clip, text, shown) ==
  [op |-> name, kind |-> kind, clip |-> clip, text |-> text, alert |-> shown,
   with |-> {}]

InitMultiVars ==
  /\ mstate = MultiState
  /\ mtasks = {}
  /\ mlast = MultiOp("init", "none", NoId, "none", NoAlert)

Init ==
  /\ InitSingle
  /\ app = "single"
  /\ poll = PollIdle
  /\ InitMultiVars

(* ---- next-state relation ---- *)
Next ==
  \/ undo
  \/ undoEmpty
  \/ redo
  \/ redoEmpty
  \/ \E a \in AssetIds(assets) : onDrop(a)
  \/ \E id \in ClipIds(timeline) : onRemoveClip(id)
  \/ \E id \in ClipIds(timeline) : onSelectClip(id)
  \/ \E i \in 1..(Len(timeline) - 1), ty \in TransitionInputs : onSetTransition(i, ty)
  \/ \E sp \in SpeedInputs : handlePlaybackSpeedChange(sp)
  \/ \E patch \in OverlayPatches : handleTextOverlayChange(patch)
  \/ \E files \in FileLists : handleUpload(files)
  \/ handleGenerate
  \/ handleStitch
  \/ handleStitchMissing
  \/ handleExtend
  \/ handleExtendRejected
  \/ \E color \in BgColors : handleRemoveBackground(color)
  \/ handleRemoveBackgroundRejected
  \/ handleScanScenes
  \/ \E t \in tasks, r \in BOOLEAN : checkKey(t, r)
  \/ \E t \in tasks : uploadDone(t)
  \/ \E t \in tasks : uploadFail(t)
  \/ \E t \in tasks, r \in BOOLEAN : generateKey(t, r)
  \/ \E t \in tasks : submitOk(t)
  \/ \E t \in tasks : submitFail(t)
  \/ \E t \in tasks : pollOk(t)
  \/ \E t \in tasks : pollFail(t)
  \/ \E t \in tasks, text \in ResponseTexts : scanOk(t, ParseList(text))
  \/ \E t \in tasks : scanFail(t)

Spec == Init /\ [][Next]_vars

(* ---- the round-trip scenario ---- *)
RtFrame(name) ==
  /\ alert' = NoAlert
  /\ lastOp' = [op |-> name, clip |-> NoId, kind |-> "none", hadFuture |-> FALSE]
  /\ UNCHANGED <<assets, timeline, activeClipId, past, future, Flags,
                 tasks, nextId, origin, steps>>
  /\ UNCHANGED Elsewhere

(* the sequence starts in a state with no handler suspended *)
rtMark ==
  /\ Phase({"free"})
  /\ Handlers = {}
  /\ rt' = [phase |-> "act", pre |-> Cur, n |-> 0]
  /\ RtFrame("mark")

NextRT == Next \/ rtMark

SpecRT == Init /\ [][NextRT]_vars

(* ---- C1 ---- *)
RECURSIVE UndoTimes(_, _)
UndoTimes(h, n) == IF n = 0 THEN h ELSE UndoTimes(Undone(h), n - 1)

RECURSIVE RedoTimes(_, _)
RedoTimes(h, n) == IF n = 0 THEN h ELSE RedoTimes(Redone(h), n - 1)

PushingOps == {"drop", "removeClip", "setTransition", "setSpeed", "setOverlay",
               "submitOk", "scanOk"}

(* C2: whenever a handler calls saveHistory and then applies its mutation, the *)
(* snapshot pushed onto past equals the {assets, timeline, activeClipId} the   *)
(* mutation is applied to, also when the state changed while the handler was   *)
(* suspended before saveHistory (jobs, scan) or after it (upload).             *)
C2_SnapshotIsStateBeforeMutation ==
  [][ /\ lastOp'.op \in PushingOps => Last(past') = Cur
      /\ lastOp'.op = "uploadDone" => \A t \in tasks \ tasks' : t.snap = Cur
    ]_vars

(* ---- C3 ---- *)
(* C3: when a job fails after its placeholder was inserted, the clip is still  *)
(* in the timeline with status "error" and the busy flag of the handler is     *)
(* false.                                                                      *)
C3_FailedJobMarksClipError ==
  [][ lastOp'.op = "pollFail" /\ lastOp'.clip \in ClipIds(timeline) =>
        /\ FindClip(timeline', lastOp'.clip) # <<>>
        /\ FindClip(timeline', lastOp'.clip)[1].status = "error"
        /\ IF FlagOf(lastOp'.kind) = "isGenerating" THEN ~isGenerating' ELSE ~isProcessingBg'
    ]_vars

(* ---- C4 ---- *)
(* the step in which handleGenerate inserts its placeholder *)
GenerateAccepted == lastOp'.op = "submitOk" /\ lastOp'.kind = "generate"

(* the step in which the job of handleGenerate succeeds *)
GenerateSucceeded == lastOp'.op = "pollOk" /\ lastOp'.kind = "generate"

(* a clip with a new id, status generating and no asset is added and selected *)
PlaceholderInserted ==
  LET c == FindClip(timeline', lastOp'.clip)
  IN /\ lastOp'.clip \notin ClipIds(timeline)
     /\ Len(timeline') = Len(timeline) + 1
     /\ c # <<>>
     /\ c[1].status = "generating"
     /\ c[1].assetId = NoId
     /\ activeClipId' = lastOp'.clip

(* exactly one asset, with a new id, is appended to the store *)
OneAssetAppended ==
  /\ Len(assets') = Len(assets) + 1
  /\ SubSeq(assets', 1, Len(assets)) = assets
  /\ Last(assets').id \notin AssetIds(assets)

(* the clip of the job is ready and refers to the appended asset *)
PlaceholderBound ==
  LET c == FindClip(timeline', lastOp'.clip)
  IN /\ c # <<>>
     /\ c[1].status = "ready"
     /\ c[1].assetId = Last(assets').id
     /\ ClipIds(timeline') = ClipIds(timeline)

ClipsInFlight(kinds) ==
  {i \in 1..Len(timeline) :
     \E t \in tasks : t.kind \in kinds /\ t.pc = "poll" /\ t.clip = timeline[i].id}

C6_PlaceholderNotPlayable ==
  /\ \A i \in 1..Len(timeline) :
       /\ timeline[i].assetId = NoId => TileAsset(timeline[i]) = <<>>
       /\ [id |-> timeline[i].id, how |-> "placeholder"] \in origin
            /\ TileAsset(timeline[i]) # <<>>
          => /\ [id |-> timeline[i].id, how |-> "finalized"] \in origin
             /\ timeline[i].assetId \in AssetIds(assets)
  /\ LET c == FindClip(timeline, activeClipId)
     IN c # <<>> /\ c[1].assetId = NoId => activeAsset = <<>>

(* a selected placeholder next to clips that do resolve to assets *)
C6_Witness ==
  /\ assets # <<>>
  /\ FindClip(timeline, activeClipId) # <<>>
  /\ FindClip(timeline, activeClipId)[1].assetId = NoId
  /\ FindClip(timeline, activeClipId)[1].status = "generating"
  /\ \E i \in 1..Len(timeline) : TileAsset(timeline[i]) # <<>>

(* ---- C7 ---- *)
(* the steps in which a checkpointed action calls saveHistory *)
CheckpointOps == PushingOps \cup {"upload"}

(* C7: a checkpointed action leaves the future stack empty, also after one or *)
(* more undo calls, so that a following redo changes nothing.                 *)
C7_CheckpointClearsFuture ==
  lastOp.op \in CheckpointOps =>
    /\ future = <<>>
    /\ Redone(History(Cur, past, future)) = History(Cur, past, future)

(* a checkpointed action taken while the future stack was not empty *)
C7_Witness ==
  /\ lastOp.op \in CheckpointOps
  /\ lastOp.hadFuture
  /\ past # <<>>

(* ---- C8 ---- *)
HistoryVars == <<assets, timeline, activeClipId, past, future>>

(* C8: undo with an empty past and redo with an empty future change none of   *)
(* assets, timeline, activeClipId, past, future; otherwise undo pops the last *)
(* snapshot of past, pushes the current state onto future and makes the       *)
(* popped snapshot current, and redo does the same with past and future       *)
(* exchanged.                                                                 *)
C8_UndoRedoEffect ==
  [][ /\ lastOp'.op \in {"undo", "undoEmpty"} =>
           IF past = <<>> THEN UNCHANGED HistoryVars
           ELSE /\ Cur' = Last(past)
                /\ past' = Front(past)
                /\ future' = <<Cur>> \o future
      /\ lastOp'.op \in {"redo", "redoEmpty"} =>
           IF future = <<>> THEN UNCHANGED HistoryVars
           ELSE /\ Cur' = Head(future)
                /\ future' = Tail(future)
                /\ past' = Append(past, Cur)
    ]_vars

(* a redo that restored a non-empty timeline and left a snapshot to redo *)
C8_Witness ==
  /\ lastOp.op = "redo"
  /\ timeline # <<>>
  /\ past # <<>>

(* ---- C9 ---- *)
(* the selected clip shows a video asset that has no originalUri *)
ActiveVideoWithoutUri ==
  /\ activeAsset # <<>>
  /\ activeAsset[1].type = "video"
  /\ ~activeAsset[1].originalUri

(* C9: extend on a clip whose asset is a video without originalUri shows a    *)
(* message, submits no job, inserts no placeholder clip, pushes no snapshot   *)
(* and leaves isGenerating false.                                             *)
C9_ExtendWithoutUriRejected ==
  [][ /\ ActiveVideoWithoutUri
      /\ \/ lastOp'.op = "extendRejected"
         \/ lastOp'.op = "invoke" /\ lastOp'.kind = "extend"
      => /\ alert' # NoAlert
         /\ tasks' = tasks
         /\ timeline' = timeline
         /\ past' = past
         /\ ~isGenerating'
    ]_vars

(* extend was rejected on the clip of an uploaded video, next to an image *)
C9_Witness ==
  /\ lastOp.op = "extendRejected"
  /\ ActiveVideoWithoutUri
  /\ alert = "Only AI-generated videos with accessible remote links can be extended."
  /\ \E i \in 1..Len(assets) : assets[i].type = "image"

(* ---- C10 ---- *)
(* C10: a handler whose job submission is rejected changes none of timeline,  *)
(* assets, past, future, from its invocation to its end, so that no           *)
(* placeholder is left, and its busy flag is false again.                     *)
C10_RejectedSubmissionLeavesNoTrace ==
  [][ /\ lastOp'.op = "invoke" /\ lastOp'.kind \in JobKinds =>
           UNCHANGED <<timeline, assets, past, future>>
      /\ lastOp'.op = "generateKey" => UNCHANGED <<timeline, assets, past, future>>
      /\ lastOp'.op = "submitFail" =>
           /\ UNCHANGED <<timeline, assets, past, future>>
           /\ IF FlagOf(lastOp'.kind) = "isGenerating"
              THEN ~isGenerating'
              ELSE ~isProcessingBg'
    ]_vars

(* the submission of a stitch was rejected: two clips, no placeholder *)
C10_Witness ==
  /\ lastOp.op = "submitFail" /\ lastOp.kind = "stitch"
  /\ ~isGenerating
  /\ Len(timeline) = 2
  /\ \A i \in 1..Len(timeline) : timeline[i].status = "ready"

(* ---- GeminiService.pollOperation, gemini.ts 171-189 and part_000 132-144 ---- *)
(* what the collaborator reports about an operation: done, error, video uri *)
PollStatuses == [done : BOOLEAN, error : {"none", "quota exceeded"}, uri : BOOLEAN]

MaxScript == 3

(* a script: the handle passed to pollOperation, then the answers to the queries *)
Scripts == UNION {[1..n -> PollStatuses] : n \in 1..MaxScript}

PollVariants == {"gemini.ts", "part_000"}

(* setTimeout(resolve, 5000) *)
SleepMs == 5000

NoUriMessage == "Video generation failed - no URI"

(* currentOp *)
currentOp == poll.script[poll.pos]

PollFrame ==
  /\ app = "poll"
  /\ UNCHANGED <<assets, timeline, activeClipId, past, future, Flags,
                 tasks, nextId, alert, lastOp, origin, steps, rt, app,
                 mstate, mtasks, mlast>>

(* variant: a do-while loop, the sleep comes before the first test *)
AfterTestOfDoWhile(op) == IF op.done /\ poll.sleeps > 0 THEN "link" ELSE "sleep"

(* while (!currentOp.done) *)
AfterTest(op) == IF op.done THEN "link" ELSE "sleep"

pollTest ==
  /\ PollFrame
  /\ poll.pc = "test"
  /\ poll' = [poll EXCEPT !.pc = AfterTest(currentOp)]

(* await new Promise(resolve => setTimeout(resolve, 5000)) *)
pollSleep ==
  /\ PollFrame
  /\ poll.pc = "sleep"
  /\ poll' = [poll EXCEPT !.pc = "query", !.sleeps = @ + 1, !.clock = @ + SleepMs]

(* part_000 138: if (currentOp.error) throw new Error(currentOp.error.message); *)
(* gemini.ts has no such line                                                   *)
AfterQuery(variant, op) ==
  IF variant = "part_000" /\ op.error # "none"
  THEN [pc |-> "thrown", result |-> <<op.error>>]
  ELSE [pc |-> "test", result |-> <<>>]

(* currentOp = await ai.operations.getVideosOperation({ operation: currentOp }) *)
pollQuery ==
  /\ PollFrame
  /\ poll.pc = "query"
  /\ poll.pos < Len(poll.script)
  /\ LET then == AfterQuery(poll.variant, poll.script[poll.pos + 1])
     IN poll' = [poll EXCEPT !.pos = @ + 1, !.queries = @ + 1,
                             !.pc = then.pc, !.result = then.result]

(* gemini.ts 181: if (!downloadLink) throw ...; part_000 has no such line *)
AfterLink(variant, op) ==
  IF variant = "gemini.ts" /\ ~op.uri
  THEN [pc |-> "thrown", result |-> <<NoUriMessage>>]
  ELSE [pc |-> "fetch", result |-> <<>>]

pollLink ==
  /\ PollFrame
  /\ poll.pc = "link"
  /\ LET then == AfterLink(poll.variant, currentOp)
     IN poll' = [poll EXCEPT !.pc = then.pc, !.result = then.result]

(* the { blobUrl, originalUri } that is returned; downloadLink may be undefined *)
PollResult(op) ==
  [blobUrl |-> "blob", originalUri |-> IF op.uri THEN "uri" ELSE "undefined"]

(* fetch(`${downloadLink}&key=...`) and res.blob(): resolve, or reject *)
pollFetch(ok) ==
  /\ PollFrame
  /\ poll.pc = "fetch"
  /\ poll' = [poll EXCEPT !.fetches = @ + 1,
                          !.pc = IF ok THEN "returned" ELSE "thrown",
                          !.result = IF ok THEN <<PollResult(currentOp)>>
                                     ELSE <<"Failed to fetch">>]

(* pollOperation(operation) is called with the first status of a script *)
PollStart(variant, script) ==
  [PollIdle EXCEPT !.variant = variant, !.script = script, !.pos = 1, !.pc = "test"]

InitPoll ==
  /\ InitSingle
  /\ InitMultiVars
  /\ app = "poll"
  /\ poll \in {PollStart(v, sc) : v \in PollVariants, sc \in Scripts}

NextPoll ==
  \/ pollTest
  \/ pollSleep
  \/ pollQuery
  \/ pollLink
  \/ \E ok \in BOOLEAN : pollFetch(ok)

(* the event loop runs every continuation that is ready *)
SpecPoll == InitPoll /\ [][NextPoll]_vars /\ WF_vars(NextPoll)

(* ---- C11 ---- *)
PollEnded == poll.pc \in {"returned", "thrown"}

(* not-done, not-done, done-with-result, and the download succeeds *)
ScriptedTwoNotDone ==
  /\ Len(poll.script) = 3
  /\ \A i \in 1..3 : poll.script[i].error = "none"
  /\ ~poll.script[1].done /\ ~poll.script[2].done
  /\ poll.script[3].done /\ poll.script[3].uri

(* C11: pollOperation ends once the collaborator reports completion; for the  *)
(* statuses not-done (the handle), not-done, done-with-result it returns the  *)
(* result after exactly 2 sleeps; every query is preceded by one sleep of     *)
(* 5000 ms; a handle that is done on entry is neither slept on nor queried.   *)
C11_PollTerminates ==
  /\ [](app = "poll" =>
          /\ poll.sleeps = poll.queries + (IF poll.pc = "query" THEN 1 ELSE 0)
          /\ poll.clock = SleepMs * poll.sleeps
          /\ poll.queries = poll.pos - 1
          /\ poll.script[1].done => poll.sleeps = 0 /\ poll.queries = 0
          /\ ScriptedTwoNotDone /\ poll.pc = "returned" =>
               /\ poll.sleeps = 2
               /\ poll.result = <<PollResult(poll.script[3])>>)
  /\ [][currentOp.done => poll'.sleeps = poll.sleeps /\ poll'.queries = poll.queries]_vars
  /\ (app = "poll" /\ currentOp.done ~> PollEnded)

(* the scripted call returned its result after two sleeps *)
C11_Witness ==
  /\ app = "poll"
  /\ ScriptedTwoNotDone
  /\ poll.pc = "returned"
  /\ poll.sleeps = 2 /\ poll.queries = 2 /\ poll.clock = 10000

(* ---- C12 ---- *)
(* C12: when the answer to a status query reports an error, with or without   *)
(* done, pollOperation ends at once, without a further query, with an error   *)
(* that carries the collaborator's message; in every variant.                 *)
C12_ErrorStopsPolling ==
  [][ /\ app = "poll"
      /\ poll'.queries = poll.queries + 1
      /\ poll'.script[poll'.pos].error # "none"
      => /\ poll'.pc = "thrown"
         /\ poll'.result = <<poll'.script[poll'.pos].error>>
    ]_vars

(* ---- C13 ---- *)
(* C13: when the collaborator reports done without a video uri, pollOperation *)
(* fails with the malformed-result error, downloads nothing, queries no more  *)
(* and returns no { blobUrl, originalUri }; in every variant.                 *)
C13_DoneWithoutUriFails ==
  app = "poll" /\ currentOp.done /\ ~currentOp.uri /\ currentOp.error = "none" =>
    /\ poll.pc \in {"test", "link", "thrown"}
    /\ poll.fetches = 0
    /\ poll.pc = "thrown" => poll.result = <<NoUriMessage>>

(* ---- the multi-track controller, App.tsx 8-381, with GeminiService of part_000 ---- *)
MaxMultiSteps == 4

MultiFileLists == {<<"video">>, <<"audio">>}

DropTracks == {"v1", "a1"}

(* variant: the catch block of suggestColorGrading returns an empty object *)
ParseGradingNoDefault(text) ==
  CASE text = "json" -> "suggested"
    [] OTHER -> "empty object"

(* suggestColorGrading, part_000 33-37: JSON.parse(response.text || "{}"), *)
(* the default parameters when parsing throws                              *)
ParseGrading(text) ==
  CASE text = "json" -> "suggested"
    [] text = "missing" -> "empty object"
    [] OTHER -> "default"

(* suggestAudioMix, part_000 87: the names of the tracks to duck *)
ParseLevels(text) == IF text = "json" THEN {"a1"} ELSE {}

MultiClip(id, assetId, track, grading, volume) ==
  [id |-> id, assetId |-> assetId, track |-> track, autoCaptions |-> "absent",
   colorGrading |-> grading, volume |-> volume]

(* the busy flag each handler sets and clears *)
MultiFlagOf(kind) ==
  CASE kind \in {"generate", "stitch"} -> "isGenerating"
    [] kind \in {"captions", "grade", "mix"} -> "isAnalyzing"
    [] kind = "storyboard" -> "isAnalyzingStoryboard"
    [] OTHER -> "isBoosting"

(* n tells the invocations of one handler apart; with: the handlers in flight *)
(* for the same clip                                                          *)
MultiTask(kind, pc, clip) ==
  [kind |-> kind, pc |-> pc, clip |-> clip,
   n |-> Min({k \in 0..Cardinality(mtasks) : \A t \in mtasks : t.kind = kind => t.n # k}),
   with |-> {t.kind : t \in {u \in mtasks : u.clip = clip}}]

(* a user action of the multi-track controller *)
MultiFrame ==
  /\ app = "multi"
  /\ steps < MaxMultiSteps
  /\ steps' = steps + 1
  /\ UNCHANGED <<assets, timeline, activeClipId, past, future, Flags,
                 tasks, alert, lastOp, origin, rt, app, poll>>

(* the resumption of a suspended handler of the multi-track controller *)
MultiResumed ==
  /\ app = "multi"
  /\ UNCHANGED <<assets, timeline, activeClipId, past, future, Flags,
                 tasks, alert, lastOp, origin, rt, app, poll, steps>>

MultiSpawn(t) ==
  /\ Cardinality(mtasks) < MaxTasks
  /\ mtasks' = mtasks \cup {t}

MultiClipIds == {mstate.clips[i].id : i \in 1..Len(mstate.clips)}

MultiFind(id) ==
  LET I == {i \in 1..Len(mstate.clips) : mstate.clips[i].id = id}
  IN IF I = {} THEN <<>> ELSE <<mstate.clips[Min(I)]>>

(* the guard of handleViralBoost and handleAutoCaptions: a clip with a video asset *)
ActiveVideoClip ==
  /\ MultiFind(mstate.activeClipId) # <<>>
  /\ FindAsset(mstate.assets, MultiFind(mstate.activeClipId)[1].assetId) # <<>>
  /\ FindAsset(mstate.assets, MultiFind(mstate.activeClipId)[1].assetId)[1].type = "video"

(* handleUpload, App.tsx 30-46 *)
multiUpload(files) ==
  /\ MultiFrame
  /\ nextId + Len(files) - 1 <= MaxIds
  /\ mstate' = [mstate EXCEPT !.assets = @ \o [i \in 1..Len(files) |->
                                  [id |-> nextId + i - 1, type |-> files[i]]]]
  /\ nextId' = nextId + Len(files)
  /\ mlast' = MultiOp("upload", "none", NoId, "none", NoAlert)
  /\ UNCHANGED mtasks

(* handleClipDrop, App.tsx 227-248 *)
handleClipDrop(assetId, trackId) ==
  /\ MultiFrame
  /\ nextId <= MaxIds
  /\ mstate' = [mstate EXCEPT
       !.clips = Append(@, MultiClip(nextId, assetId, trackId, "default", "full")),
       !.activeClipId = nextId,
       !.activeTrackId = trackId]
  /\ nextId' = nextId + 1
  /\ mlast' = MultiOp("drop", "none", nextId, "none", NoAlert)
  /\ UNCHANGED mtasks

(* Timeline onSelectClip, App.tsx 351 *)
multiSelectClip(id) ==
  /\ MultiFrame
  /\ mstate' = [mstate EXCEPT !.activeClipId = id]
  /\ mlast' = MultiOp("select", "none", id, "none", NoAlert)
  /\ UNCHANGED <<mtasks, nextId>>

(* the click on a button: the handler runs to its first await; no button of *)
(* this controller is disabled while a flag is set                          *)
MultiInvoke(kind, pc, clip, flagged) ==
  /\ MultiFrame
  /\ MultiSpawn(MultiTask(kind, pc, clip))
  /\ mstate' = IF flagged THEN [mstate EXCEPT ![MultiFlagOf(kind)] = TRUE] ELSE mstate
  /\ mlast' = MultiOp("invoke", kind, clip, "none", NoAlert)
  /\ UNCHANGED nextId

(* handleGenerate, App.tsx 65-66: await checkApiKey() *)
multiGenerate == MultiInvoke("generate", "key", NoId, FALSE)

(* handleGenerate, App.tsx 67-73 *)
multiGenerateKey(t, hasKey, prompted) ==
  /\ MultiResumed
  /\ t \in mtasks /\ t.kind = "generate" /\ t.pc = "key"
  /\ IF hasKey /\ prompted
     THEN /\ mtasks' = (mtasks \ {t}) \cup {[t EXCEPT !.pc = "job"]}
          /\ mstate' = [mstate EXCEPT !.isGenerating = TRUE]
     ELSE /\ mtasks' = mtasks \ {t}
          /\ UNCHANGED mstate
  /\ mlast' = MultiOp("generateKey", "generate", NoId, "none", NoAlert)
  /\ UNCHANGED nextId

(* handleStitch, App.tsx 94-98 *)
multiStitch ==
  /\ Cardinality({i \in 1..Len(mstate.clips) :
                    mstate.clips[i].track = mstate.activeTrackId}) >= 2
  /\ MultiInvoke("stitch", "job", NoId, TRUE)

(* handleViralBoost, App.tsx 124-130 *)
handleViralBoost ==
  /\ ActiveVideoClip
  /\ MultiInvoke("boost", "job", mstate.activeClipId, TRUE)

(* handleAutoCaptions, App.tsx 154-159 *)
handleAutoCaptions ==
  /\ ActiveVideoClip
  /\ MultiInvoke("captions", "job", mstate.activeClipId, TRUE)

(* handleGenerateStoryboard, App.tsx 173-174 *)
multiGenerateStoryboard == MultiInvoke("storyboard", "job", NoId, TRUE)

(* handleAutoGrade, App.tsx 182-185 *)
handleAutoGrade ==
  /\ MultiFind(mstate.activeClipId) # <<>>
  /\ MultiInvoke("grade", "job", mstate.activeClipId, TRUE)

(* handleAutoMix, App.tsx 201-202 *)
handleAutoMix == MultiInvoke("mix", "job", NoId, TRUE)

(* the end of a handler: its task is gone, its flag is false *)
MultiEnd(t, name, text, shown, clips) ==
  /\ MultiResumed
  /\ mtasks' = mtasks \ {t}
  /\ mstate' = [mstate EXCEPT ![MultiFlagOf(t.kind)] = FALSE, !.clips = clips]
  /\ mlast' = [MultiOp(name, t.kind, t.clip, text, shown) EXCEPT !.with = t.with]
  /\ UNCHANGED nextId

(* the clip and the asset a finished generation adds, App.tsx 77-87, 110-118, 144-146 *)
MultiAdded(track) ==
  [mstate EXCEPT
     !.assets = Append(@, [id |-> nextId, type |-> "video"]),
     !.clips = Append(@, MultiClip(nextId + 1, nextId, track, "absent", "absent"))]

(* handleGenerate 75-87 and handleStitch 108-118: the job succeeded *)
multiJobOk(t) ==
  /\ MultiResumed
  /\ t \in mtasks /\ t.kind \in {"generate", "stitch"} /\ t.pc = "job"
  /\ nextId + 1 <= MaxIds
  /\ mtasks' = mtasks \ {t}
  /\ mstate' = [MultiAdded(mstate.activeTrackId) EXCEPT
       !.isGenerating = FALSE,
       !.activeClipId = IF t.kind = "generate" THEN nextId + 1 ELSE @]
  /\ nextId' = nextId + 2
  /\ mlast' = MultiOp("jobOk", t.kind, nextId + 1, "none", NoAlert)

(* handleViralBoost 141-147: one suggestion was generated *)
boostClip(t) ==
  /\ MultiResumed
  /\ t \in mtasks /\ t.kind = "boost"
  /\ nextId + 1 <= MaxIds
  /\ mstate' = MultiAdded("v2")
  /\ nextId' = nextId + 2
  /\ mlast' = MultiOp("boostClip", t.kind, nextId + 1, "none", NoAlert)
  /\ UNCHANGED mtasks

(* handleViralBoost 148 *)
boostEnd(t) ==
  /\ t \in mtasks /\ t.kind = "boost"
  /\ MultiEnd(t, "boostEnd", "none", NoAlert, mstate.clips)

(* the catch blocks, App.tsx 88-91, 119-121, 149-151, 170, 179, 196-198, 222-224: *)
(* only handleGenerate calls alert                                               *)
multiCatch(t) ==
  /\ t \in mtasks /\ t.pc = "job"
  /\ MultiEnd(t, "catch", "none",
              IF t.kind = "generate" THEN "Error" ELSE NoAlert, mstate.clips)

(* variant: the clip is rebuilt from its identity and the captions *)
SetCaptionsOnFreshClip(c, captions) ==
  [MultiClip(c.id, c.assetId, c.track, "absent", c.volume) EXCEPT !.autoCaptions = captions]

(* { ...c, autoCaptions } *)
SetCaptions(c, captions) == [c EXCEPT !.autoCaptions = captions]

(* { ...c, colorGrading: grading } *)
SetGrading(c, grading) == [c EXCEPT !.colorGrading = grading]

(* t.clips.map(c => c.id === clip.id ? changed(c) : c) over every track *)
MultiMap(id, changed) ==
  [i \in 1..Len(mstate.clips) |->
     IF mstate.clips[i].id = id THEN changed[i] ELSE mstate.clips[i]]

(* handleAutoCaptions, App.tsx 168-169 *)
captionsOk(t, text) ==
  /\ t \in mtasks /\ t.kind = "captions"
  /\ MultiEnd(t, "captionsOk", text, NoAlert,
              MultiMap(t.clip, [i \in 1..Len(mstate.clips) |->
                                  SetCaptions(mstate.clips[i], ParseList(text))]))

(* handleAutoGrade, App.tsx 187-195 *)
gradeOk(t, text) ==
  /\ t \in mtasks /\ t.kind = "grade"
  /\ MultiEnd(t, "gradeOk", text, NoAlert,
              MultiMap(t.clip, [i \in 1..Len(mstate.clips) |->
                                  SetGrading(mstate.clips[i], ParseGrading(text))]))

(* handleAutoMix, App.tsx 205-221: the clips of the audio tracks that are ducked *)
mixOk(t, text) ==
  /\ t \in mtasks /\ t.kind = "mix"
  /\ MultiEnd(t, "mixOk", text, NoAlert,
              [i \in 1..Len(mstate.clips) |->
                 IF mstate.clips[i].track \in ParseLevels(text)
                 THEN [mstate.clips[i] EXCEPT !.volume = "ducked"]
                 ELSE mstate.clips[i]])

(* handleGenerateStoryboard, App.tsx 177-178 *)
storyboardOk(t, text) ==
  /\ MultiResumed
  /\ t \in mtasks /\ t.kind = "storyboard"
  /\ mtasks' = mtasks \ {t}
  /\ mstate' = [mstate EXCEPT !.storyboard = ParseList(text),
                              !.isAnalyzingStoryboard = FALSE]
  /\ mlast' = MultiOp("storyboardOk", t.kind, NoId, text, NoAlert)
  /\ UNCHANGED nextId

InitMulti ==
  /\ InitSingle
  /\ app = "multi"
  /\ poll = PollIdle
  /\ InitMultiVars

NextMulti ==
  \/ \E files \in MultiFileLists : multiUpload(files)
  \/ \E a \in AssetIds(mstate.assets), tr \in DropTracks : handleClipDrop(a, tr)
  \/ \E id \in MultiClipIds : multiSelectClip(id)
  \/ multiGenerate
  \/ \E t \in mtasks, k \in BOOLEAN, p \in BOOLEAN : multiGenerateKey(t, k, p)
  \/ multiStitch
  \/ handleViralBoost
  \/ handleAutoCaptions
  \/ multiGenerateStoryboard
  \/ handleAutoGrade
  \/ handleAutoMix
  \/ \E t \in mtasks : multiJobOk(t)
  \/ \E t \in mtasks : boostClip(t)
  \/ \E t \in mtasks : boostEnd(t)
  \/ \E t \in mtasks : multiCatch(t)
  \/ \E t \in mtasks, text \in ResponseTexts : captionsOk(t, text)
  \/ \E t \in mtasks, text \in ResponseTexts : gradeOk(t, text)
  \/ \E t \in mtasks, text \in ResponseTexts : mixOk(t, text)
  \/ \E t \in mtasks, text \in ResponseTexts : storyboardOk(t, text)

SpecMulti == InitMulti /\ [][NextMulti]_vars

(* ---- C14 ---- *)
(* the handlers in flight that have set the flag *)
JobsUnder(flag) == {t \in mtasks : t.pc = "job" /\ MultiFlagOf(t.kind) = flag}

(* C14: for each busy flag, at most one job guarded by the flag is outstanding: *)
(* while the flag is true no second job of its feature class is submitted.     *)
C14_OneJobPerFlag ==
  app = "multi" =>
    \A flag \in {"isGenerating", "isAnalyzing", "isAnalyzingStoryboard", "isBoosting"} :
      Cardinality(JobsUnder(flag)) <= 1

(* ---- C15 ---- *)
(* the run in which a clip is uploaded and dropped, and two jobs are started *)
InitJobs ==
  /\ InitSingle
  /\ app = "jobs"
  /\ poll = PollIdle
  /\ InitMultiVars

NextJobs ==
  \/ handleUpload(<<"video">>)
  \/ \E t \in tasks : uploadDone(t)
  \/ \E a \in AssetIds(assets) : onDrop(a)
  \/ handleGenerate
  \/ \E color \in BgColors : handleRemoveBackground(color)
  \/ \E t \in tasks, r \in BOOLEAN : checkKey(t, r)
  \/ \E t \in tasks, r \in BOOLEAN : generateKey(t, r)
  \/ \E t \in tasks : submitOk(t)
  \/ \E t \in tasks : pollOk(t)
  \/ \E t \in tasks : pollFail(t)
  \/ undo

SpecJobs == InitJobs /\ [][NextJobs]_vars

(* two jobs of independent features, both waiting for their result *)
Independent(t1, t2) ==
  /\ t1.pc = "poll" /\ t2.pc = "poll"
  /\ t1.kind \in JobKinds /\ t2.kind \in JobKinds
  /\ FlagOf(t1.kind) # FlagOf(t2.kind)

Range(s) == {s[i] : i \in 1..Len(s)}

(* the two orders of completion end in the same timeline and the same set of assets *)
Commute(t1, a1, t2, a2) ==
  LET x == Completed(Completed(Live, t1, a1), t2, a2)
      y == Completed(Completed(Live, t2, a2), t1, a1)
  IN x.timeline = y.timeline /\ Range(x.assets) = Range(y.assets)

(* a completion changes only the clip with its id and appends only its asset *)
OwnClipOnly ==
  lastOp'.op = "pollOk" =>
    /\ Len(timeline') = Len(timeline)
    /\ \A i \in 1..Len(timeline) :
         timeline[i].id # lastOp'.clip => timeline'[i] = timeline[i]
    /\ Len(assets') = Len(assets) + 1
    /\ SubSeq(assets', 1, Len(assets)) = assets

(* C15: when two jobs of independent features are in flight at once, the resulting *)
(* timeline and the set of assets are the same whichever job completes first, and  *)
(* each finalize changes only the clip with its own id and appends only its asset. *)
C15_CompletionsCommute ==
  /\ [](\A t1 \in tasks, t2 \in tasks :
          Independent(t1, t2) =>
            \A a1 \in {nextId, nextId + 1}, a2 \in {nextId, nextId + 1} :
              a1 # a2 => Commute(t1, a1, t2, a2))
  /\ [][OwnClipOnly]_vars

(* one of two independent jobs has completed while the other is in flight, *)
(* and both of their clips are in the timeline                             *)
C15_Witness ==
  /\ lastOp.op = "pollOk"
  /\ lastOp.clip \in ClipIds(timeline)
  /\ \E t \in tasks :
       /\ t.pc = "poll" /\ t.kind \in JobKinds
       /\ FlagOf(t.kind) # FlagOf(lastOp.kind)
       /\ t.clip \in ClipIds(timeline) /\ t.clip # lastOp.clip

(* ---- C16 ---- *)
(* the clips a finished suggestion was asked for *)
Suggested == {i \in 1..Len(mstate.clips) : mstate.clips[i].id = mlast'.clip}

(* C16: when caption generation and color-grade suggestion are both in flight on   *)
(* the same clip, in either completion order the clip afterwards carries both      *)
(* autoCaptions and colorGrading: the completion of one sets its attribute from    *)
(* its response and leaves the attribute of the other as it was.                   *)
C16_CaptionsAndGradeBothKept ==
  [][/\ mlast'.op = "captionsOk" =>
          /\ Len(mstate'.clips) = Len(mstate.clips)
          /\ \A i \in Suggested :
               /\ mstate'.clips[i].autoCaptions = ParseList(mlast'.text)
               /\ mstate'.clips[i].colorGrading = mstate.clips[i].colorGrading
     /\ mlast'.op = "gradeOk" =>
          /\ Len(mstate'.clips) = Len(mstate.clips)
          /\ \A i \in Suggested :
               /\ mstate'.clips[i].colorGrading = ParseGrading(mlast'.text)
               /\ mstate'.clips[i].autoCaptions = mstate.clips[i].autoCaptions]_vars

(* the grade was asked for while the captions of the same clip were in flight, *)
(* both have completed, and the clip carries the captions and the grading      *)
C16_Witness ==
  /\ app = "multi"
  /\ mlast.op = "gradeOk"
  /\ "captions" \in mlast.with
  /\ \E i \in 1..Len(mstate.clips) :
       /\ mstate.clips[i].id = mlast.clip
       /\ mstate.clips[i].autoCaptions = "list"
       /\ mstate.clips[i].colorGrading = "suggested"

(* ---- C17 ---- *)
(* the single-track controller with its scene scan: upload, drop, select, scan, undo *)
NextScan ==
  \/ \E files \in FileLists : handleUpload(files)
  \/ \E t \in tasks : uploadDone(t)
  \/ \E a \in AssetIds(assets) : onDrop(a)
  \/ \E id \in ClipIds(timeline) : onSelectClip(id)
  \/ \E id \in ClipIds(timeline) : onRemoveClip(id)
  \/ handleScanScenes
  \/ \E t \in tasks, r \in BOOLEAN : checkKey(t, r)
  \/ \E t \in tasks, text \in ResponseTexts : scanOk(t, ParseList(text))
  \/ \E t \in tasks : scanFail(t)
  \/ undo
  \/ redo

(* the two controllers, each from its first render *)
SpecApps == (Init \/ InitMulti) /\ [][NextScan \/ NextMulti]_vars

AdvisoryKinds == {"captions", "grade", "mix", "storyboard"}

FailureOps == {"submitFail", "pollFail", "scanFail"}

(* C18: every failure of a user action other than a parse error of an advisory *)
(* feature produces a user-visible message: no handler (generate, stitch,      *)
(* extend, remove background, scan scenes, captions, storyboard) finishes on   *)
(* its failure path without surfacing one.                                     *)
C18_EveryFailureSurfaces ==
  [][/\ app = "single" /\ lastOp'.op \in FailureOps => alert' # NoAlert
     /\ app = "multi" /\ mlast'.op = "catch" => mlast'.alert # NoAlert]_vars

(* ---- C19 ---- *)
(* the steps on which a handler stops before its mutation *)
StoppedOps == {"extendRejected", "removeBgRejected", "submitFail"}

(* one snapshot per mutating action, none on completions and stopped handlers *)
SnapshotsCounted ==
  /\ lastOp'.op \in PushingOps =>
       Len(past') = Len(past) + 1 /\ Front(past') = past
  /\ lastOp'.op \in {"pollOk", "pollFail"} => past' = past
  /\ lastOp'.op \in StoppedOps => past' = past

(* the upload whose file could not be decoded was the only user action *)
FailedUploadPushedNone ==
  lastOp'.op = "uploadFail" /\ steps = 1 => past' = <<>>

(* C19: each user action that applies a mutation to assets or timeline pushes   *)
(* exactly one snapshot onto past, before the mutation; a job completion pushes *)
(* none, and a handler that stops before its mutation (guard not met,           *)
(* submission rejected, file decoding failed) pushes none.                      *)
C19_OneSnapshotPerMutation ==
  [][app = "single" => SnapshotsCounted /\ FailedUploadPushedNone]_vars

(* ---- C20 ---- *)
IsPrefix(a, b) == Len(a) <= Len(b) /\ SubSeq(b, 1, Len(a)) = a

(* C20 as stated: an asset is never deleted: once an asset is in the store it is *)
(* in the store in every later state, after any sequence of upload, job          *)
(* completion, clip removal, undo and redo; append keeps the existing assets in  *)
(* their order.                                                                  *)
C20_AssetNeverDeleted ==
  [][app = "single" => IsPrefix(assets, assets')]_vars

(* C20, amended: every step other than undo and redo keeps the existing assets  *)
(* in their order, in front of the assets it appends; undo and redo replace the *)
(* store by the assets of the snapshot they restore.                            *)
C20_AssetsKeptExceptByUndoRedo ==
  [][app = "single" =>
       /\ lastOp'.op \notin {"undo", "redo"} => IsPrefix(assets, assets')
       /\ lastOp'.op \in {"uploadDone", "pollOk"} => Len(assets') > Len(assets)
       /\ lastOp'.op = "undo" => assets' = Last(past).assets
       /\ lastOp'.op = "redo" => assets' = Head(future).assets]_vars

(* a job has completed: its asset is in the store behind the uploaded one *)
C20_Witness ==
  /\ app = "single"
  /\ lastOp.op = "pollOk"
  /\ Len(assets) >= 2
  /\ ~assets[1].originalUri
  /\ assets[Len(assets)].originalUri

(* ---- C21 ---- *)
(* C21: in the single-track timeline the array order of the clips agrees with *)
(* their order field: in every reachable state the order values are strictly  *)
(* increasing along the array.                                                *)
C21_OrderStrictlyIncreasing ==
  app = "single" =>
    \A i \in 1..(Len(timeline) - 1) : timeline[i].order < timeline[i + 1].order

(* ---- C22 ---- *)
(* the status of the clip with this id before and after the step *)
StatusStep(id) ==
  <<FindClip(timeline, id)[1].status, FindClip(timeline', id)[1].status>>

(* the step is the start of an edit job on the clip: handleRemoveBackground, 660-665 *)
EditJobStarted(id) ==
  lastOp'.op = "submitOk" /\ lastOp'.kind = "removeBg" /\ lastOp'.clip = id

(* C22: the status of a clip changes only along generating to ready (job        *)
(* succeeded), generating to error (job failed) and ready to generating (a      *)
(* further edit job started on the clip); no operation other than the start of  *)
(* an edit job, undo and redo included, takes a clip from ready back to         *)
(* generating.                                                                  *)
C22_StatusTransitions ==
  [][app = "single" =>
       \A id \in ClipIds(timeline) \cap ClipIds(timeline') :
         \/ StatusStep(id)[1] = StatusStep(id)[2]
         \/ StatusStep(id) = <<"generating", "ready">> /\ lastOp'.op = "pollOk"
         \/ StatusStep(id) = <<"generating", "error">>
              /\ lastOp'.op \in {"pollFail", "submitFail"}
         \/ StatusStep(id) = <<"ready", "generating">> /\ EditJobStarted(id)]_vars

(* ---- C23 ---- *)
(* the asset of the clip an edit job was submitted for, in the state of the click *)
EditedAsset(t) ==
  LET c == FindClip(t.snap.timeline, t.clip)
  IN IF c = <<>> THEN <<>> ELSE FindAsset(t.snap.assets, c[1].assetId)

(* C23: every asset created by a job completion carries a non-empty remote      *)
(* handle (originalUri) next to its local url, and every uploaded asset carries *)
(* none; hence extend and remove background submit a job only for clips whose   *)
(* asset was produced by a job.                                                 *)
C23_JobAssetsCarryRemoteHandle ==
  /\ app = "poll" /\ poll.pc = "returned" =>
       /\ poll.result[1].blobUrl = "blob"
       /\ poll.result[1].originalUri = "uri"
  /\ app = "single" =>
       \A t \in tasks : t.kind \in {"extend", "removeBg"} /\ t.pc = "submit" =>
         /\ EditedAsset(t) # <<>>
         /\ EditedAsset(t)[1].originalUri

(* ---- C24 ---- *)
(* the overlay a clip shows: its own, or the default one *)
OverlayOf(c) == IF c.textOverlay = <<>> THEN DefaultOverlay ELSE c.textOverlay[1]

(* nothing but the clip with this id has changed *)
OnlyClipChanged(id) ==
  /\ assets' = assets
  /\ Len(timeline') = Len(timeline)
  /\ \A i \in 1..Len(timeline) : timeline[i].id # id => timeline'[i] = timeline[i]

(* the clip with this id differs from what it was in the given attribute at most *)
OnlySpeedChanged(id) ==
  \A i \in 1..Len(timeline) : timeline[i].id = id =>
    timeline'[i] = [timeline[i] EXCEPT !.playbackSpeed = timeline'[i].playbackSpeed]

OnlyTransitionChanged(id) ==
  \A i \in 1..Len(timeline) : timeline[i].id = id =>
    timeline'[i] = [timeline[i] EXCEPT !.transition = timeline'[i].transition]

OnlyOverlayChanged(id) ==
  \A i \in 1..Len(timeline) : timeline[i].id = id =>
    /\ timeline'[i] = [timeline[i] EXCEPT !.textOverlay = timeline'[i].textOverlay]
    /\ \E patch \in OverlayPatches :
         \A f \in DOMAIN DefaultOverlay :
           OverlayOf(timeline'[i])[f] =
             IF f \in DOMAIN patch THEN patch[f] ELSE OverlayOf(timeline[i])[f]

(* C24: setting an enhancement attribute on the active clip (playback speed,    *)
(* text overlay, transition) changes only that attribute of that clip: its id,  *)
(* assetId, status and other attributes, every other clip and the asset store   *)
(* are unchanged; a partial overlay patch keeps the fields it does not mention; *)
(* with no active clip the operation changes nothing and pushes no snapshot.    *)
C24_AttributeFrame ==
  [][app = "single" =>
       /\ lastOp'.op \in {"setSpeed", "setOverlay", "setTransition"} =>
            OnlyClipChanged(lastOp'.clip)
       /\ lastOp'.op = "setSpeed" => OnlySpeedChanged(lastOp'.clip)
       /\ lastOp'.op = "setOverlay" => OnlyOverlayChanged(lastOp'.clip)
       /\ lastOp'.op = "setTransition" => OnlyTransitionChanged(lastOp'.clip)
       /\ lastOp'.op \in {"setSpeed", "setOverlay"}
            /\ activeClipId \notin ClipIds(timeline) =>
              UNCHANGED <<assets, timeline, past>>]_vars

(* ---- C25 ---- *)
(* the jobs in flight whose completion finalizes the clip with this id *)
JobsFor(id) == {t \in tasks : t.kind \in JobKinds /\ t.pc = "poll" /\ t.clip = id}

(* C25: in every reachable state, every clip with status "generating" has a job *)
(* in flight whose completion will finalize it.                                 *)
C25_GeneratingClipHasJob ==
  app = "single" =>
    \A i \in 1..Len(timeline) :
      timeline[i].status = "generating" => JobsFor(timeline[i].id) # {}

(* ---- C26 ---- *)
(* C26: in every reachable state, every clip with status "ready" has an assetId *)
(* that is the id of an asset currently in the asset store.                     *)
C26_ReadyClipHasStoredAsset ==
  app = "single" =>
    \A i \in 1..Len(timeline) :
      timeline[i].status = "ready" => timeline[i].assetId \in AssetIds(assets)

(* a redo has brought back a clip that a job had finalized, together with its asset *)
C26_Witness ==
  /\ app = "single"
  /\ lastOp.op = "redo"
  /\ \E i \in 1..Len(timeline) :
       /\ timeline[i].status = "ready"
       /\ timeline[i].assetId \in AssetIds(assets)
       /\ FindAsset(assets, timeline[i].assetId)[1].originalUri

(* ---- C27 ---- *)
(* C27: in every reachable state activeClipId is null or the id of a clip *)
(* currently in the timeline.                                             *)
C27_ActiveClipInTimeline ==
  app = "single" => activeClipId = NoId \/ activeClipId \in ClipIds(timeline)

(* ---- C28 ---- *)
(* the run in which clips are uploaded, dropped and selected, and then stitched *)
InitStitch ==
  /\ InitSingle
  /\ app = "stitch"
  /\ poll = PollIdle
  /\ InitMultiVars

NextStitch ==
  \/ handleUpload(<<"video">>)
  \/ \E t \in tasks : uploadDone(t)
  \/ \E a \in AssetIds(assets) : onDrop(a)
  \/ \E id \in ClipIds(timeline) : onSelectClip(id)
  \/ \E id \in ClipIds(timeline) : onRemoveClip(id)
  \/ handleStitch
  \/ \E t \in tasks, r \in BOOLEAN : checkKey(t, r)
  \/ \E t \in tasks : submitOk(t)
  \/ \E t \in tasks : submitFail(t)

SpecStitch == InitStitch /\ [][NextStitch]_vars

(* C28: stitch submits a job only when the timeline holds at least two clips,  *)
(* and the two reference clips it derives the start and end frames from are    *)
(* two different clips, for every position of the active clip.                 *)
C28_StitchUsesTwoClips ==
  \A t \in tasks : t.kind = "stitch" /\ t.pc = "submit" =>
    /\ Len(t.snap.timeline) >= 2
    /\ StitchRefs(t.snap)[1].id # StitchRefs(t.snap)[2].id

(* ---- C29 ---- *)
(* C29: while any job guarded by a busy flag is still in flight, that flag is  *)
(* true: the completion or failure of one handler never sets a flag to false   *)
(* while another handler that set the same flag is still awaiting its result.  *)
C29_FlagHeldWhileInFlight ==
  /\ app = "multi" =>
       \A t \in mtasks : t.pc = "job" => mstate[MultiFlagOf(t.kind)]
  /\ app = "single" =>
       \A t \in tasks : t.kind \in JobKinds /\ t.pc \in {"submit", "poll"} =>
         IF FlagOf(t.kind) = "isGenerating" THEN isGenerating ELSE isProcessingBg

(* ---- C30 ---- *)
(* the job that resolved had its placeholder removed from the timeline *)
PlaceholderGone == lastOp'.op = "pollOk" /\ lastOp'.clip \notin ClipIds(timeline)

(* C30: if the placeholder clip of a job is no longer in the timeline when the *)
(* job resolves, finalize leaves the timeline unchanged: the clip is not       *)
(* created again and no other clip is modified; the busy flag is still set     *)
(* back to false.                                                              *)
C30_FinalizeWithoutPlaceholder ==
  [][PlaceholderGone =>
       /\ timeline' = timeline
       /\ lastOp'.clip \notin ClipIds(timeline')
       /\ IF FlagOf(lastOp'.kind) = "isGenerating"
          THEN ~isGenerating' ELSE ~isProcessingBg']_vars

(* a generate job has resolved after its placeholder was removed or undone: *)
(* the timeline holds other clips only, and the flag is false              *)
C30_Witness ==
  /\ lastOp.op = "pollOk"
  /\ lastOp.kind = "generate"
  /\ lastOp.clip \notin ClipIds(timeline)
  /\ timeline # <<>>
  /\ ~isGenerating
====
